---- MODULE Spec2Model ----
(***************************************************************************)
(* Model of tasknc's curses color engine (color.c): the pair usage table,  *)
(* the color rule list, the rule predicate evaluator and the resolver.     *)
(*                                                                         *)
(* Strings are sequences of one-character strings.  A NULL char pointer is *)
(* the one-element sequence NULL, which is no C string.                    *)
(***************************************************************************)
EXTENDS Integers, Sequences, FiniteSets, TLC

VARIABLES
    pc,                 \* position of the program: "start", "defaults", "ready",
                        \* "freed" (after free_colors), "crashed", "undefined"
    default_idx,        \* index of the next add_color_rule call of set_default_colors
    init_ret,           \* value returned by init_colors (NO_RET before it returns)
    use_colors,         \* global use_colors
    colors_initialized, \* global colors_initialized
    COLOR_PAIRS,        \* curses' COLOR_PAIRS, set by start_color (0 before)
    pairs_used_ptr,     \* the pointer pairs_used: "null", "valid", or "freed" (dangling)
    pairs_used,         \* the array pairs_used points to, [0..COLOR_PAIRS-1 -> BOOLEAN]
    pair_table,         \* the terminal's pair contents, as init_pair stored them
    color_rules,        \* the linked list color_rules, head first
    ip_faults,          \* history: number of calls in which init_pair returned ERR
    pc_faults,          \* history: number of calls in which pair_content returned ERR
    requested,          \* history: the (fg, bg) contents asked of find_add_pair so far
    granted,            \* history: the (fg, bg) contents find_add_pair returned a slot for
    last,               \* the last call made on the engine, with its arguments and result
    heap,               \* history: releases of the engine's blocks and accesses to released ones
    ev                  \* the predicate evaluator run on its own: rule, task, flag, cursor, result

vars == <<pc, default_idx, init_ret, use_colors, colors_initialized, COLOR_PAIRS, pairs_used_ptr,
          pairs_used, pair_table, color_rules, ip_faults, pc_faults, requested, granted, last,
          heap, ev>>

engine_vars == <<pc, default_idx, init_ret, use_colors, colors_initialized, COLOR_PAIRS, pairs_used_ptr,
                 pairs_used, pair_table, color_rules, ip_faults, pc_faults, requested, granted,
                 last, heap>>

----------------------------------------------------------------------------
(* Bounds of the model *)

\* largest COLOR_PAIRS a terminal reports
MaxColorPairs == 8

\* failures of init_pair / pair_content the terminal may produce in one run
MaxFaults == 1

\* longest predicate string given to the evaluator run on its own
MaxLen == 5

\* most clauses of a predicate built clause by clause
MaxClauses == 2

----------------------------------------------------------------------------
(* curses constants *)

COLOR_BLACK == 0
COLOR_RED == 1
COLOR_GREEN == 2
COLOR_YELLOW == 3
COLOR_BLUE == 4
COLOR_MAGENTA == 5
COLOR_CYAN == 6

OBJECT_HEADER == "OBJECT_HEADER"
OBJECT_TASK == "OBJECT_TASK"
OBJECT_ERROR == "OBJECT_ERROR"

Objects == {OBJECT_HEADER, OBJECT_TASK, OBJECT_ERROR}

NULL == <<"NULL">>

\* init_ret before init_colors has returned
NO_RET == -1

\* COLOR_PAIR(n) of curses.h: the pair number shifted into the attribute's color bits
COLOR_PAIR(n) == (n * 256) % 65536

----------------------------------------------------------------------------
(* Strings *)

IsSpace(c) == c = " "

\* the C string s from 1-based position pos on
Suffix(s, pos) == SubSeq(s, pos, Len(s))

\* str_starts_with(s, prefix)
str_starts_with(s, prefix) ==
    /\ Len(s) >= Len(prefix)
    /\ SubSeq(s, 1, Len(prefix)) = prefix

\* value contains needle as a contiguous run
Contains(value, needle) ==
    \E i \in 1..(Len(value) + 1) :
        /\ i + Len(needle) - 1 <= Len(value)
        /\ SubSeq(value, i, i + Len(needle) - 1) = needle

\* the regular expressions of the default rules, as the literal texts they look for
RE_PRIORITY_M == <<"[", "M", "m", "]">>
RE_QUESTION == <<"\\", "?">>
RE_TASK == <<"t", "a", "s", "k", "*">>

RegexLiterals(regex) ==
    IF regex = RE_PRIORITY_M THEN {<<"M">>, <<"m">>}
    ELSE IF regex = RE_QUESTION THEN {<<"?">>}
    ELSE IF regex = RE_TASK THEN {<<"t", "a", "s">>}
    ELSE {regex}

\* match_string(value, regex): the pattern matching primitive, a search in value
match_string(value, regex) ==
    \E lit \in RegexLiterals(regex) : Contains(value, lit)

----------------------------------------------------------------------------
(* The predicate evaluator, eval_rules *)

\* first position >= i of s that holds no white space (Len(s)+1 at the end)
RECURSIVE SkipSpaces(_, _)
SkipSpaces(s, i) ==
    IF i <= Len(s) /\ IsSpace(s[i]) THEN SkipSpaces(s, i + 1) ELSE i

\* first position >= i of s that holds a quote (Len(s)+1 at the end)
RECURSIVE ScanToQuote(_, _)
ScanToQuote(s, i) ==
    IF i <= Len(s) /\ s[i] # "'" THEN ScanToQuote(s, i + 1) ELSE i

\* sscanf(s, "~%c '%m[^\']'", &pattern, &regex) for s starting with '~':
\* ret is the number of conversions stored (EOF when the input ends before %c).
\* The quote that ends the format is matched after the last conversion, so it
\* does not change ret.
sscanf_clause(s) ==
    IF Len(s) < 2 THEN [ret |-> -1, pattern |-> "", regex |-> <<>>]
    ELSE LET q == SkipSpaces(s, 3)
             e == ScanToQuote(s, q + 1)
         IN  IF q > Len(s) \/ s[q] # "'" \/ e = q + 1
             THEN [ret |-> 1, pattern |-> s[2], regex |-> <<>>]
             ELSE [ret |-> 2, pattern |-> s[2], regex |-> SubSeq(s, q + 1, e - 1)]

\* the one-character string eval_rules builds from tsk->priority (empty for priority 0)
PriorityString(tsk) == IF tsk.priority = "" THEN <<>> ELSE <<tsk.priority>>

\* FieldSwitch with a default case that leaves go set
FieldSwitch_DefaultGo(pattern, regex, tsk) ==
    IF pattern = "p" THEN (IF ~match_string(tsk.project, regex) THEN "nomatch" ELSE "go")
    ELSE IF pattern = "d" THEN (IF ~match_string(tsk.description, regex) THEN "nomatch" ELSE "go")
    ELSE IF pattern = "t" THEN (IF ~match_string(tsk.tags, regex) THEN "nomatch" ELSE "go")
    ELSE IF pattern = "r" THEN (IF ~match_string(PriorityString(tsk), regex) THEN "nomatch" ELSE "go")
    ELSE "go"

\* the switch of eval_rules on the field letter: "nomatch" returns false at once,
\* "go" continues after the clause, "stop" is the default case
FieldSwitch(pattern, regex, tsk) ==
    IF pattern = "p" THEN (IF ~match_string(tsk.project, regex) THEN "nomatch" ELSE "go")
    ELSE IF pattern = "d" THEN (IF ~match_string(tsk.description, regex) THEN "nomatch" ELSE "go")
    ELSE IF pattern = "t" THEN (IF ~match_string(tsk.tags, regex) THEN "nomatch" ELSE "go")
    ELSE IF pattern = "r" THEN (IF ~match_string(PriorityString(tsk), regex) THEN "nomatch" ELSE "go")
    ELSE "stop"

\* eval_rules taking the ~S clause as matched whatever the selection flag is
EvalStep_SelectedIgnored(rule, pos, tsk, selected) ==
    IF rule = NULL \/ pos > Len(rule)
    THEN [done |-> TRUE, res |-> TRUE, pos |-> pos]
    ELSE IF rule[pos] # "~"
    THEN [done |-> FALSE, res |-> FALSE, pos |-> pos + 1]
    ELSE IF str_starts_with(Suffix(rule, pos), <<"~", "S">>)
    THEN [done |-> FALSE, res |-> FALSE, pos |-> pos + 2]
    ELSE LET sc == sscanf_clause(Suffix(rule, pos))
             move == Len(sc.regex) + 3
         IN  IF sc.ret = 2 /\ FieldSwitch(sc.pattern, sc.regex, tsk) = "go"
             THEN [done |-> FALSE, res |-> FALSE, pos |-> pos + move]
             ELSE [done |-> TRUE, res |-> FALSE, pos |-> pos]

\* eval_rules returning true at the first character that is no '~', without
\* looking at what follows it
EvalStep_TrueAtOther(rule, pos, tsk, selected) ==
    IF rule = NULL \/ pos > Len(rule)
    THEN [done |-> TRUE, res |-> TRUE, pos |-> pos]
    ELSE IF rule[pos] # "~"
    THEN [done |-> TRUE, res |-> TRUE, pos |-> pos]
    ELSE IF str_starts_with(Suffix(rule, pos), <<"~", "S">>)
    THEN (IF selected
          THEN [done |-> FALSE, res |-> FALSE, pos |-> pos + 2]
          ELSE [done |-> TRUE, res |-> FALSE, pos |-> pos])
    ELSE LET sc == sscanf_clause(Suffix(rule, pos))
             move == Len(sc.regex) + 3
         IN  IF sc.ret = 2 /\ FieldSwitch(sc.pattern, sc.regex, tsk) = "go"
             THEN [done |-> FALSE, res |-> FALSE, pos |-> pos + move]
             ELSE [done |-> TRUE, res |-> FALSE, pos |-> pos]
\* eval_rules moving past a matching field clause by the length the clause has
\* when written with one space and a closing quote
EvalStep_MoveWholeClause(rule, pos, tsk, selected) ==
    IF rule = NULL \/ pos > Len(rule)
    THEN [done |-> TRUE, res |-> TRUE, pos |-> pos]
    ELSE IF rule[pos] # "~"
    THEN [done |-> FALSE, res |-> FALSE, pos |-> pos + 1]
    ELSE IF str_starts_with(Suffix(rule, pos), <<"~", "S">>)
    THEN (IF selected
          THEN [done |-> FALSE, res |-> FALSE, pos |-> pos + 2]
          ELSE [done |-> TRUE, res |-> FALSE, pos |-> pos])
    ELSE LET sc == sscanf_clause(Suffix(rule, pos))
             move == Len(sc.regex) + 5
         IN  IF sc.ret = 2 /\ FieldSwitch(sc.pattern, sc.regex, tsk) = "go"
             THEN [done |-> FALSE, res |-> FALSE, pos |-> pos + move]
             ELSE [done |-> TRUE, res |-> FALSE, pos |-> pos]

\* One invocation of eval_rules with the cursor at 1-based position pos of rule:
\* either it returns (done, with res) or it calls itself with the cursor at pos.
EvalStep(rule, pos, tsk, selected) ==
    IF rule = NULL \/ pos > Len(rule)
    THEN [done |-> TRUE, res |-> TRUE, pos |-> pos]
    ELSE IF rule[pos] # "~"
    THEN [done |-> FALSE, res |-> FALSE, pos |-> pos + 1]
    ELSE IF str_starts_with(Suffix(rule, pos), <<"~", "S">>)
    THEN (IF selected
          THEN [done |-> FALSE, res |-> FALSE, pos |-> pos + 2]
          ELSE [done |-> TRUE, res |-> FALSE, pos |-> pos])
    ELSE LET sc == sscanf_clause(Suffix(rule, pos))
             move == Len(sc.regex) + 3
         IN  IF sc.ret = 2 /\ FieldSwitch(sc.pattern, sc.regex, tsk) = "go"
             THEN [done |-> FALSE, res |-> FALSE, pos |-> pos + move]
             ELSE [done |-> TRUE, res |-> FALSE, pos |-> pos]

RECURSIVE eval_from(_, _, _, _)
eval_from(rule, pos, tsk, selected) ==
    LET st == EvalStep(rule, pos, tsk, selected)
    IN  IF st.done THEN st.res ELSE eval_from(rule, st.pos, tsk, selected)

\* eval_rules(rule, tsk, selected)
eval_rules(rule, tsk, selected) == eval_from(rule, 1, tsk, selected)

----------------------------------------------------------------------------
(* The pair pool: add_color_pair and find_add_pair *)

\* pairs_used[i]; a read past the end of the array yields whatever lies there (oob)
UsedAt(pu, i, oob) == IF i \in DOMAIN pu THEN pu[i] ELSE oob

\* while (pairs_used[pair] && pair<COLOR_PAIRS) pair++;
RECURSIVE ScanFree(_, _, _, _)
ScanFree(pu, n, pair, oob) ==
    IF UsedAt(pu, pair, oob) /\ pair < n THEN ScanFree(pu, n, pair + 1, oob) ELSE pair

\* add_color_pair(askpair, fg, bg) on usage table pu and terminal pair table pt,
\* with n = COLOR_PAIRS; env.init_pair_ok tells whether init_pair succeeds
add_color_pair(pu, pt, n, askpair, fg, bg, env) ==
    LET scanned == ScanFree(pu, n, 0, env.oob)
        fail == [ret |-> -1, pu |-> pu, pt |-> pt, ip_failed |-> FALSE]
    IN  IF askpair <= 0 /\ scanned = n THEN fail
        ELSE IF askpair > 0 /\ pu[askpair] THEN fail
        ELSE LET pair == IF askpair <= 0 THEN scanned ELSE askpair
             IN  IF ~env.init_pair_ok
                 THEN [fail EXCEPT !.ip_failed = TRUE]
                 ELSE [ret |-> pair,
                       pu |-> [pu EXCEPT ![pair] = TRUE],
                       pt |-> [pt EXCEPT ![pair] = <<fg, bg>>],
                       ip_failed |-> FALSE]

\* the loop of find_add_pair from slot pair on: found is the slot returned from
\* inside the loop (0 when the loop runs out), free_pair the first unused slot
\* seen (-1 when none), pc_err whether a pair_content call returned ERR
RECURSIVE FindLoop(_, _, _, _, _, _, _, _)
FindLoop(pu, pt, n, pair, free_pair, fg, bg, env) ==
    IF pair >= n THEN [found |-> 0, free_pair |-> free_pair, pc_err |-> FALSE]
    ELSE IF pu[pair]
    THEN IF ~env.pair_content_ok
         THEN [FindLoop(pu, pt, n, pair + 1, free_pair, fg, bg, env) EXCEPT !.pc_err = TRUE]
         ELSE IF pt[pair][1] = fg /\ pt[pair][2] = bg
              THEN [found |-> pair, free_pair |-> free_pair, pc_err |-> FALSE]
              ELSE FindLoop(pu, pt, n, pair + 1, free_pair, fg, bg, env)
    ELSE FindLoop(pu, pt, n, pair + 1, IF free_pair = -1 THEN pair ELSE free_pair, fg, bg, env)

\* find_add_pair comparing both halves of a slot's content with fg
find_add_pair_BgTypo(pu, pt, n, fg, bg, env) ==
    LET lp == FindLoop(pu, pt, n, 1, -1, fg, fg, env)
    IN  IF lp.found > 0
        THEN [ret |-> lp.found, pu |-> pu, pt |-> pt, ip_failed |-> FALSE, pc_err |-> lp.pc_err]
        ELSE LET a == add_color_pair(pu, pt, n, lp.free_pair, fg, bg, env)
             IN  [ret |-> a.ret, pu |-> a.pu, pt |-> a.pt, ip_failed |-> a.ip_failed,
                  pc_err |-> lp.pc_err]

\* find_add_pair whose loop starts at slot 2
find_add_pair_FromTwo(pu, pt, n, fg, bg, env) ==
    LET lp == FindLoop(pu, pt, n, 2, IF n > 1 /\ ~pu[1] THEN 1 ELSE -1, fg, bg, env)
    IN  IF lp.found > 0
        THEN [ret |-> lp.found, pu |-> pu, pt |-> pt, ip_failed |-> FALSE, pc_err |-> lp.pc_err]
        ELSE LET a == add_color_pair(pu, pt, n, lp.free_pair, fg, bg, env)
             IN  [ret |-> a.ret, pu |-> a.pu, pt |-> a.pt, ip_failed |-> a.ip_failed,
                  pc_err |-> lp.pc_err]

\* the highest unused slot of 1..n-1, -1 when none
LastFree(pu, n) ==
    IF \E i \in 1..(n - 1) : ~pu[i]
    THEN CHOOSE i \in 1..(n - 1) : ~pu[i] /\ \A j \in (i + 1)..(n - 1) : pu[j]
    ELSE -1

\* find_add_pair that keeps the last unused slot it saw, not the first
find_add_pair_LastFree(pu, pt, n, fg, bg, env) ==
    LET lp == FindLoop(pu, pt, n, 1, -1, fg, bg, env)
    IN  IF lp.found > 0
        THEN [ret |-> lp.found, pu |-> pu, pt |-> pt, ip_failed |-> FALSE, pc_err |-> lp.pc_err]
        ELSE LET a == add_color_pair(pu, pt, n, LastFree(pu, n), fg, bg, env)
             IN  [ret |-> a.ret, pu |-> a.pu, pt |-> a.pt, ip_failed |-> a.ip_failed,
                  pc_err |-> lp.pc_err]

\* find_add_pair(fg, bg)
find_add_pair(pu, pt, n, fg, bg, env) ==
    LET lp == FindLoop(pu, pt, n, 1, -1, fg, bg, env)
    IN  IF lp.found > 0
        THEN [ret |-> lp.found, pu |-> pu, pt |-> pt, ip_failed |-> FALSE, pc_err |-> lp.pc_err]
        ELSE LET a == add_color_pair(pu, pt, n, lp.free_pair, fg, bg, env)
             IN  [ret |-> a.ret, pu |-> a.pu, pt |-> a.pt, ip_failed |-> a.ip_failed,
                  pc_err |-> lp.pc_err]

\* the highest index at which add_color_pair(askpair, fg, bg) reads or writes
\* pairs_used: the index its while loop stops at, or askpair
add_color_pair_top(pu, n, askpair, env) ==
    IF askpair <= 0 THEN ScanFree(pu, n, 0, env.oob) ELSE askpair

\* the highest index at which find_add_pair(fg, bg), add_color_pair included,
\* reads or writes pairs_used
find_add_pair_top(pu, pt, n, fg, bg, env) ==
    LET lp == FindLoop(pu, pt, n, 1, -1, fg, bg, env)
    IN  IF lp.found > 0 THEN lp.found
        ELSE LET a == add_color_pair_top(pu, n, lp.free_pair, env)
             IN  IF a > n - 1 THEN a ELSE n - 1

----------------------------------------------------------------------------
(* The rule store: add_color_rule *)

\* the test of add_color_rule's loop: same object, and the same rule pointer or
\* two non-null rules with the same text
SameRule(this, object, rule) ==
    /\ this.object = object
    /\ \/ (this.rule = NULL /\ rule = NULL)
       \/ (this.rule # NULL /\ rule # NULL /\ this.rule = rule)

\* position of the first rule of the list from i on that the loop stops at, 0 if none
RECURSIVE FindRule(_, _, _, _)
FindRule(rules, i, object, rule) ==
    IF i > Len(rules) THEN 0
    ELSE IF SameRule(rules[i], object, rule) THEN i
    ELSE FindRule(rules, i + 1, object, rule)

\* add_color_rule that never looks for an existing rule
add_color_rule_NoSearch(rules, pu, pt, n, object, rule, fg, bg, env) ==
    LET f == find_add_pair(pu, pt, n, fg, bg, env)
    IN  IF f.ret < 0
        THEN [ret |-> f.ret, fap |-> f.ret, rules |-> rules, pu |-> f.pu, pt |-> f.pt,
              ip_failed |-> f.ip_failed, pc_err |-> f.pc_err]
        ELSE [ret |-> 0, fap |-> f.ret,
              rules |-> Append(rules, [pair |-> f.ret, rule |-> rule, object |-> object]),
              pu |-> f.pu, pt |-> f.pt,
              ip_failed |-> f.ip_failed, pc_err |-> f.pc_err]

\* add_color_rule that stores the pair before it tests find_add_pair's result
add_color_rule_StoreFirst(rules, pu, pt, n, object, rule, fg, bg, env) ==
    LET this == FindRule(rules, 1, object, rule)
        f == find_add_pair(pu, pt, n, fg, bg, env)
    IN  [ret |-> IF f.ret < 0 THEN f.ret ELSE 0, fap |-> f.ret,
         rules |-> IF this > 0
                   THEN [rules EXCEPT ![this].pair = f.ret]
                   ELSE Append(rules, [pair |-> f.ret, rule |-> rule, object |-> object]),
         pu |-> f.pu, pt |-> f.pt,
         ip_failed |-> f.ip_failed, pc_err |-> f.pc_err]

\* add_color_rule that links a new rule in at the head of the list
add_color_rule_Prepend(rules, pu, pt, n, object, rule, fg, bg, env) ==
    LET this == FindRule(rules, 1, object, rule)
        f == find_add_pair(pu, pt, n, fg, bg, env)
    IN  IF f.ret < 0
        THEN [ret |-> f.ret, fap |-> f.ret, rules |-> rules, pu |-> f.pu, pt |-> f.pt,
              ip_failed |-> f.ip_failed, pc_err |-> f.pc_err]
        ELSE [ret |-> 0, fap |-> f.ret,
              rules |-> IF this > 0
                        THEN [rules EXCEPT ![this].pair = f.ret]
                        ELSE <<[pair |-> f.ret, rule |-> rule, object |-> object]>> \o rules,
              pu |-> f.pu, pt |-> f.pt,
              ip_failed |-> f.ip_failed, pc_err |-> f.pc_err]
\* add_color_rule that, replacing the pair of a rule, marks the pair the rule
\* had as unused
add_color_rule_ReleaseOld(rules, pu, pt, n, object, rule, fg, bg, env) ==
    LET this == FindRule(rules, 1, object, rule)
        f == find_add_pair(pu, pt, n, fg, bg, env)
    IN  IF f.ret < 0
        THEN [ret |-> f.ret, fap |-> f.ret, rules |-> rules, pu |-> f.pu, pt |-> f.pt,
              ip_failed |-> f.ip_failed, pc_err |-> f.pc_err]
        ELSE [ret |-> 0, fap |-> f.ret,
              rules |-> IF this > 0
                        THEN [rules EXCEPT ![this].pair = f.ret]
                        ELSE Append(rules, [pair |-> f.ret, rule |-> rule, object |-> object]),
              pu |-> IF this > 0 /\ rules[this].pair # f.ret
                     THEN [f.pu EXCEPT ![rules[this].pair] = FALSE]
                     ELSE f.pu,
              pt |-> f.pt,
              ip_failed |-> f.ip_failed, pc_err |-> f.pc_err]

\* add_color_rule(object, rule, fg, bg): the value returned, the list, the usage
\* table and the terminal's pair table after the call
add_color_rule(rules, pu, pt, n, object, rule, fg, bg, env) ==
    LET this == FindRule(rules, 1, object, rule)
        f == find_add_pair(pu, pt, n, fg, bg, env)
    IN  IF f.ret < 0
        THEN [ret |-> f.ret, fap |-> f.ret, rules |-> rules, pu |-> f.pu, pt |-> f.pt,
              ip_failed |-> f.ip_failed, pc_err |-> f.pc_err]
        ELSE [ret |-> 0, fap |-> f.ret,
              rules |-> IF this > 0
                        THEN [rules EXCEPT ![this].pair = f.ret]
                        ELSE Append(rules, [pair |-> f.ret, rule |-> rule, object |-> object]),
              pu |-> f.pu, pt |-> f.pt,
              ip_failed |-> f.ip_failed, pc_err |-> f.pc_err]

----------------------------------------------------------------------------
(* The resolver: get_colors *)

\* the while loop of get_colors from rule i on, with the running pair
RECURSIVE GetColorsLoop(_, _, _, _, _, _)
GetColorsLoop(rules, i, pair, object, tsk, selected) ==
    IF i > Len(rules) THEN pair
    ELSE IF object = rules[i].object /\ object \in {OBJECT_ERROR, OBJECT_HEADER}
    THEN rules[i].pair
    ELSE IF object = rules[i].object /\ object = OBJECT_TASK
              /\ eval_rules(rules[i].rule, tsk, selected)
    THEN GetColorsLoop(rules, i + 1, rules[i].pair, object, tsk, selected)
    ELSE GetColorsLoop(rules, i + 1, pair, object, tsk, selected)

\* the loop of get_colors stopping at the first rule that applies, for every object
RECURSIVE FirstMatchLoop(_, _, _, _, _)
FirstMatchLoop(rules, i, object, tsk, selected) ==
    IF i > Len(rules) THEN 0
    ELSE IF object = rules[i].object
              /\ (object # OBJECT_TASK \/ eval_rules(rules[i].rule, tsk, selected))
    THEN rules[i].pair
    ELSE FirstMatchLoop(rules, i + 1, object, tsk, selected)

\* get_colors that stops at the first task rule whose predicate holds
get_colors_FirstMatch(rules, object, tsk, selected) ==
    COLOR_PAIR(FirstMatchLoop(rules, 1, object, tsk, selected))

\* the loop of get_colors evaluating the predicate and walking on, for every object
RECURSIVE CascadeLoop(_, _, _, _, _, _)
CascadeLoop(rules, i, pair, object, tsk, selected) ==
    IF i > Len(rules) THEN pair
    ELSE IF object = rules[i].object /\ eval_rules(rules[i].rule, tsk, selected)
    THEN CascadeLoop(rules, i + 1, rules[i].pair, object, tsk, selected)
    ELSE CascadeLoop(rules, i + 1, pair, object, tsk, selected)

\* get_colors that treats header and error rules as it treats task rules
get_colors_AllCascade(rules, object, tsk, selected) ==
    COLOR_PAIR(CascadeLoop(rules, 1, 0, object, tsk, selected))

\* get_colors whose running pair starts at 1
get_colors_StartAtOne(rules, object, tsk, selected) ==
    COLOR_PAIR(GetColorsLoop(rules, 1, 1, object, tsk, selected))

\* get_colors(object, tsk, selected)
get_colors(rules, object, tsk, selected) ==
    COLOR_PAIR(GetColorsLoop(rules, 1, 0, object, tsk, selected))

----------------------------------------------------------------------------
(* Inputs *)

PRED_SELECTED == <<"~", "S">>
PRED_PROJECT_A == <<"~", "p", " ", "'", "a", "'">>
PRED_PRIORITY_M == <<"~", "r", " ", "'">> \o RE_PRIORITY_M \o <<"'">>
PRED_QUESTION == <<"~", "d", " ", "'">> \o RE_QUESTION \o <<"'">>
PRED_TASK == <<"~", "p", " ", "'">> \o RE_TASK \o <<"'">>

\* the calls of set_default_colors, in order
DefaultRules == <<
    [object |-> OBJECT_HEADER, rule |-> NULL, fg |-> COLOR_BLUE, bg |-> COLOR_BLACK],
    [object |-> OBJECT_TASK, rule |-> NULL, fg |-> -1, bg |-> -1],
    [object |-> OBJECT_TASK, rule |-> PRED_PRIORITY_M, fg |-> COLOR_YELLOW, bg |-> -1],
    [object |-> OBJECT_TASK, rule |-> PRED_QUESTION, fg |-> COLOR_GREEN, bg |-> -1],
    [object |-> OBJECT_TASK, rule |-> PRED_TASK, fg |-> COLOR_RED, bg |-> -1],
    [object |-> OBJECT_TASK, rule |-> PRED_SELECTED, fg |-> COLOR_CYAN, bg |-> COLOR_BLACK],
    [object |-> OBJECT_ERROR, rule |-> NULL, fg |-> COLOR_RED, bg |-> -1] >>

\* the (object, rule) arguments callers give add_color_rule after startup
UserKeys == {
    [object |-> OBJECT_TASK, rule |-> PRED_PROJECT_A],
    [object |-> OBJECT_HEADER, rule |-> PRED_PROJECT_A] }

\* the (fg, bg) arguments callers give add_color_rule after startup
UserContents == {
    <<-1, -1>>,
    <<COLOR_MAGENTA, COLOR_BLACK>> }

\* the task records the resolver and the evaluator are given
TaskA == [project |-> <<"a">>, description |-> <<"b">>, tags |-> <<"b">>, priority |-> "M"]
TaskB == [project |-> <<"b">>, description |-> <<"?">>, tags |-> <<"a">>, priority |-> ""]
Tasks == {TaskA, TaskB}
NoTask == [project |-> <<>>, description |-> <<>>, tags |-> <<>>, priority |-> ""]

\* what the terminal does during one call: whether init_pair succeeds, whether
\* pair_content succeeds, and the value a read past the end of pairs_used yields
Envs ==
    { [init_pair_ok |-> ip, pair_content_ok |-> pk, oob |-> o] :
        ip \in BOOLEAN, pk \in BOOLEAN, o \in BOOLEAN }

\* 1 for a call that met the failure, else 0
Count(failed) == IF failed THEN 1 ELSE 0

\* the failures env announces are those the call met, within the budget; the
\* value past the end of pairs_used is only drawn when the call reads it
EnvAdmitted(env, r, pu) ==
    /\ (~env.init_pair_ok) = r.ip_failed
    /\ (~env.pair_content_ok) = r.pc_err
    /\ ip_faults + pc_faults + Count(r.ip_failed) + Count(r.pc_err) <= MaxFaults
    /\ env.oob => (r.fap < 0 /\ ~r.ip_failed /\ \A i \in DOMAIN pu : pu[i])

----------------------------------------------------------------------------
(* Teardown: free_colors *)

\* nothing released yet.  table_frees counts the releases of the usage table,
\* node_frees[i] and string_frees[i] those of the i-th rule node and of its
\* predicate string, stale_reads the nodes read after their release;
\* table_misuse tells that the usage table was accessed while not allocated
HeapClean == [table_frees |-> 0, node_frees |-> <<>>, string_frees |-> <<>>,
              stale_reads |-> 0, table_misuse |-> FALSE]

\* check_free(p): free(p) unless p is a null pointer; frees counts the releases
check_free(is_null, frees) == IF is_null THEN frees ELSE frees + 1

\* the loop of free_colors with `this` at node this (past the end: NULL).  A node
\* read after its release holds what it held, unless the process dies there
\* (crash_at names that node, 0 for none).
RECURSIVE FreeLoop(_, _, _, _)
FreeLoop(rules, this, h, crash_at) ==
    IF this > Len(rules) THEN [heap |-> h, crashed |-> FALSE]
    ELSE LET stale == h.node_frees[this] > 0
             h1 == IF stale THEN [h EXCEPT !.stale_reads = @ + 1] ELSE h
         IN  IF stale /\ crash_at = this THEN [heap |-> h1, crashed |-> TRUE]
             ELSE LET next == this + 1
                      \* check_free(last->rule), last being the node just left
                      h2 == [h1 EXCEPT !.string_frees[this] =
                                          check_free(rules[this].rule = NULL, @)]
                      \* free(this), this being the next node; free(NULL) does nothing
                      h3 == IF next <= Len(rules)
                            THEN [h2 EXCEPT !.node_frees[next] = @ + 1]
                            ELSE h2
                  IN  FreeLoop(rules, next, h3, crash_at)

\* free_colors() on the list rules and the usage table pointer table_ptr
free_colors(rules, table_ptr, h, crash_at) ==
    FreeLoop(rules, 1,
             [h EXCEPT !.table_frees = check_free(table_ptr = "null", @),
                       !.node_frees = [i \in 1..Len(rules) |-> 0],
                       !.string_frees = [i \in 1..Len(rules) |-> 0]],
             crash_at)

----------------------------------------------------------------------------
(* The program *)

NoCall == [op |-> "none", object |-> "", rule |-> NULL, fg |-> 0, bg |-> 0,
           tsk |-> NoTask, selected |-> FALSE, ret |-> 0, fap |-> 0, top |-> 0]

EvIdle == [rule |-> NULL, clauses |-> <<>>, tsk |-> NoTask, selected |-> FALSE,
           pos |-> 1, res |-> "idle"]

Init ==
    /\ pc = "start"
    /\ default_idx = 1
    /\ init_ret = NO_RET
    /\ use_colors = FALSE
    /\ colors_initialized = FALSE
    /\ COLOR_PAIRS = 0
    /\ pairs_used_ptr = "null"
    /\ pairs_used = <<>>
    /\ pair_table = <<>>
    /\ color_rules = <<>>
    /\ ip_faults = 0
    /\ pc_faults = 0
    /\ requested = {}
    /\ granted = {}
    /\ last = NoCall
    /\ heap = HeapClean
    /\ ev = EvIdle

\* init_colors up to the call of set_default_colors, or to its return 1, 2 or 3
InitColors ==
    /\ pc = "start"
    /\ \E start_ok \in BOOLEAN, default_ok \in BOOLEAN, has \in BOOLEAN, n \in 1..MaxColorPairs :
        /\ use_colors' = (start_ok /\ default_ok /\ has)
        /\ colors_initialized' = (start_ok /\ default_ok)
        /\ COLOR_PAIRS' = IF start_ok /\ has THEN n ELSE 0
        /\ (~(start_ok /\ has)) => n = 1
        /\ (~start_ok) => (default_ok /\ has)
        /\ (~default_ok) => has
        /\ IF start_ok /\ default_ok /\ has
           THEN /\ pairs_used_ptr' = "valid"
                /\ pairs_used' = [i \in 0..(n - 1) |-> i = 0]
                /\ pair_table' = [i \in 0..(n - 1) |-> <<-1, -1>>]
                /\ pc' = "defaults"
                /\ init_ret' = NO_RET
           ELSE /\ pc' = "ready"
                /\ init_ret' = IF ~start_ok THEN 1 ELSE IF ~default_ok THEN 2 ELSE 3
                /\ UNCHANGED <<pairs_used_ptr, pairs_used, pair_table>>
    /\ last' = [NoCall EXCEPT !.op = "init_colors"]
    /\ UNCHANGED <<default_idx, color_rules, ip_faults, pc_faults, requested, granted, heap, ev>>

\* the state change of one add_color_rule call whose usage table is allocated
DoAddColorRule(object, rule, fg, bg, env) ==
    LET r == add_color_rule(color_rules, pairs_used, pair_table, COLOR_PAIRS,
                            object, rule, fg, bg, env)
    IN  /\ EnvAdmitted(env, r, pairs_used)
        /\ color_rules' = r.rules
        /\ pairs_used' = r.pu
        /\ pair_table' = r.pt
        /\ ip_faults' = ip_faults + Count(r.ip_failed)
        /\ pc_faults' = pc_faults + Count(r.pc_err)
        /\ requested' = requested \cup {<<fg, bg>>}
        /\ granted' = IF r.fap >= 0 THEN granted \cup {<<fg, bg>>} ELSE granted
        /\ last' = [NoCall EXCEPT !.op = "add_color_rule", !.object = object, !.rule = rule,
                                  !.fg = fg, !.bg = bg, !.ret = r.ret, !.fap = r.fap,
                                  !.top = find_add_pair_top(pairs_used, pair_table,
                                                            COLOR_PAIRS, fg, bg, env)]

\* set_default_colors: its next add_color_rule call; after the last one
\* set_default_colors and init_colors return 0
SetDefaultColors ==
    /\ pc = "defaults"
    /\ LET d == DefaultRules[default_idx]
       IN  \E env \in Envs : DoAddColorRule(d.object, d.rule, d.fg, d.bg, env)
    /\ IF default_idx = Len(DefaultRules)
       THEN /\ pc' = "ready"
            /\ init_ret' = 0
            /\ default_idx' = default_idx
       ELSE /\ default_idx' = default_idx + 1
            /\ UNCHANGED <<pc, init_ret>>
    /\ UNCHANGED <<use_colors, colors_initialized, COLOR_PAIRS, pairs_used_ptr, heap, ev>>

\* add_color_rule called by the program after startup
AddColorRule ==
    /\ pc = "ready"
    /\ pairs_used_ptr = "valid"
    /\ \E k \in UserKeys, c \in UserContents, env \in Envs :
        DoAddColorRule(k.object, k.rule, c[1], c[2], env)
    /\ UNCHANGED <<pc, default_idx, init_ret, use_colors, colors_initialized, COLOR_PAIRS,
                   pairs_used_ptr, heap, ev>>

\* add_color_rule called while pairs_used is a null pointer: find_add_pair or
\* add_color_pair reads through it and the process dies
AddColorRuleNull ==
    /\ pc \in {"ready", "freed"}
    /\ pairs_used_ptr = "null"
    /\ pc' = "crashed"
    /\ last' = [NoCall EXCEPT !.op = "add_color_rule_crash"]
    /\ heap' = [heap EXCEPT !.table_misuse = TRUE]
    /\ UNCHANGED <<default_idx, init_ret, use_colors, colors_initialized, COLOR_PAIRS,
                   pairs_used_ptr, pairs_used, pair_table, color_rules, ip_faults, pc_faults,
                   requested, granted, ev>>

\* get_colors that keeps the pair it resolved in the head rule of the list
GetColors_KeepsResult ==
    /\ pc = "ready"
    /\ \E object \in Objects, tsk \in Tasks, selected \in BOOLEAN :
        /\ last' = [NoCall EXCEPT !.op = "get_colors", !.object = object, !.tsk = tsk,
                                  !.selected = selected,
                                  !.ret = get_colors(color_rules, object, tsk, selected)]
        /\ color_rules' = IF color_rules = <<>> THEN color_rules
                          ELSE [color_rules EXCEPT ![1].pair = last'.ret \div 256]
    /\ UNCHANGED <<pc, default_idx, init_ret, use_colors, colors_initialized, COLOR_PAIRS,
                   pairs_used_ptr, pairs_used, pair_table, ip_faults, pc_faults,
                   requested, granted, heap, ev>>
\* free_colors called by the program: it returns, or dies at a node it reads
\* after releasing it; pairs_used and color_rules keep pointing at what they did
FreeColors ==
    /\ pc = "ready"
    /\ \E crash_at \in {0} \cup (2..Len(color_rules)) :
        LET r == free_colors(color_rules, pairs_used_ptr, heap, crash_at)
        IN  /\ heap' = r.heap
            /\ pc' = IF r.crashed THEN "crashed" ELSE "freed"
    /\ pairs_used_ptr' = IF pairs_used_ptr = "valid" THEN "freed" ELSE pairs_used_ptr
    /\ last' = [NoCall EXCEPT !.op = "free_colors"]
    /\ UNCHANGED <<default_idx, init_ret, use_colors, colors_initialized, COLOR_PAIRS,
                   pairs_used, pair_table, color_rules, ip_faults, pc_faults, requested,
                   granted, ev>>

\* add_color_rule called after free_colors: find_add_pair reads pairs_used[1]
\* (add_color_pair pairs_used[0] when COLOR_PAIRS is 1) in the released block;
\* the process dies, or goes on with whatever the block holds
AddColorRuleFreed ==
    /\ pc = "freed"
    /\ pairs_used_ptr = "freed"
    /\ \E dies \in BOOLEAN : pc' = IF dies THEN "crashed" ELSE "undefined"
    /\ last' = [NoCall EXCEPT !.op = "add_color_rule_freed"]
    /\ heap' = [heap EXCEPT !.table_misuse = TRUE]
    /\ UNCHANGED <<default_idx, init_ret, use_colors, colors_initialized, COLOR_PAIRS,
                   pairs_used_ptr, pairs_used, pair_table, color_rules, ip_faults, pc_faults,
                   requested, granted, ev>>

\* get_colors called by the renderer
GetColors ==
    /\ pc = "ready"
    /\ \E object \in Objects, tsk \in Tasks, selected \in BOOLEAN :
        last' = [NoCall EXCEPT !.op = "get_colors", !.object = object, !.tsk = tsk,
                               !.selected = selected,
                               !.ret = get_colors(color_rules, object, tsk, selected)]
    /\ UNCHANGED <<pc, default_idx, init_ret, use_colors, colors_initialized, COLOR_PAIRS,
                   pairs_used_ptr, pairs_used, pair_table, color_rules, ip_faults, pc_faults,
                   requested, granted, heap, ev>>

Next ==
    \/ InitColors
    \/ SetDefaultColors
    \/ AddColorRule
    \/ AddColorRuleNull
    \/ GetColors
    \/ FreeColors
    \/ AddColorRuleFreed

Spec == Init /\ [][Next]_vars

----------------------------------------------------------------------------
(* The evaluator run on its own: eval_rules on every short predicate string *)

Alphabet == {"~", "S", "p", "z", "'", " ", "a"}

\* every string over Alphabet of at most n characters
StringsUpTo(n) == UNION { [1..k -> Alphabet] : k \in 0..n }

EvalRulesInputs == {NULL} \cup StringsUpTo(MaxLen)

\* Predicates built clause by clause.  A clause is ~S, a field clause
\* ~<letter> '<pattern>', or a malformed clause: an unknown letter, or a field
\* letter whose pattern has no closing quote.
FieldLetters == {"p", "d", "t", "r"}

Patterns == {<<"a">>, <<"M">>, <<"a", "~">>, <<"~", "a">>}

Clauses ==
    {[kind |-> "S", letter |-> "S", pattern |-> <<>>]}
    \cup {[kind |-> "field", letter |-> l, pattern |-> p] : l \in FieldLetters, p \in Patterns}
    \cup {[kind |-> "bad", letter |-> "z", pattern |-> <<"a">>],
          [kind |-> "bad", letter |-> "p", pattern |-> <<"a">>]}

\* the text of a clause
ClauseText(c) ==
    IF c.kind = "S" THEN <<"~", "S">>
    ELSE IF c.kind = "bad" /\ c.letter \in FieldLetters
    THEN <<"~", c.letter, " ", "'">> \o c.pattern
    ELSE <<"~", c.letter, " ", "'">> \o c.pattern \o <<"'">>

\* the text of a predicate made of the clauses cs, in order
RECURSIVE PredicateText(_)
PredicateText(cs) ==
    IF cs = <<>> THEN <<>> ELSE ClauseText(Head(cs)) \o PredicateText(Tail(cs))

\* every list of 1..MaxClauses clauses
ClauseLists == UNION { [1..k -> Clauses] : k \in 1..MaxClauses }

\* a task whose project and description hold a '~', besides the tasks the
\* resolver is given
TaskC == [project |-> <<"a", "~">>, description |-> <<"~", "a">>, tags |-> <<>>,
          priority |-> "L"]
EvalTasks == Tasks \cup {TaskC}

EvalInit ==
    /\ pc = "start"
    /\ default_idx = 1
    /\ init_ret = NO_RET
    /\ use_colors = FALSE
    /\ colors_initialized = FALSE
    /\ COLOR_PAIRS = 0
    /\ pairs_used_ptr = "null"
    /\ pairs_used = <<>>
    /\ pair_table = <<>>
    /\ color_rules = <<>>
    /\ ip_faults = 0
    /\ pc_faults = 0
    /\ requested = {}
    /\ granted = {}
    /\ last = NoCall
    /\ heap = HeapClean
    /\ ev \in { [rule |-> r, clauses |-> <<>>, tsk |-> t, selected |-> sel,
                 pos |-> 1, res |-> "running"] :
                    r \in EvalRulesInputs, t \in Tasks, sel \in BOOLEAN }
          \cup
              { [rule |-> PredicateText(cs), clauses |-> cs, tsk |-> t, selected |-> sel,
                 pos |-> 1, res |-> "running"] :
                    cs \in ClauseLists, t \in EvalTasks, sel \in BOOLEAN }

\* one invocation of eval_rules: it returns, or recurses with the cursor moved
EvalCall ==
    /\ ev.res = "running"
    /\ LET st == EvalStep(ev.rule, ev.pos, ev.tsk, ev.selected)
       IN  ev' = IF st.done
                 THEN [ev EXCEPT !.res = IF st.res THEN "true" ELSE "false"]
                 ELSE [ev EXCEPT !.pos = st.pos]
    /\ UNCHANGED engine_vars

EvalNext == EvalCall

EvalSpec == EvalInit /\ [][EvalNext]_vars

----------------------------------------------------------------------------
(* Shapes of predicate strings, stated on the text alone *)

\* i is the position of the first '~' of rule
IsFirstTilde(rule, i) ==
    /\ i \in 1..Len(rule)
    /\ rule[i] = "~"
    /\ \A j \in 1..(i - 1) : rule[j] # "~"

\* q is the first position after the letter at i+1 that holds no space
\* (Len(rule)+1 when only spaces follow)
IsAfterSpaces(rule, i, q) ==
    /\ q \in (i + 2)..(Len(rule) + 1)
    /\ \A j \in (i + 2)..(q - 1) : rule[j] = " "
    /\ q <= Len(rule) => rule[q] # " "

\* the first clause of rule has a field letter and no opening quote
OpeningQuoteMissing(rule) ==
    /\ rule # NULL
    /\ \E i \in 1..Len(rule), q \in 1..(Len(rule) + 1) :
        /\ IsFirstTilde(rule, i) /\ i < Len(rule) /\ rule[i + 1] \in FieldLetters
        /\ IsAfterSpaces(rule, i, q)
        /\ (q > Len(rule) \/ rule[q] # "'")

\* the first clause of rule has a field letter and the empty pattern ''
EmptyPattern(rule) ==
    /\ rule # NULL
    /\ \E i \in 1..Len(rule), q \in 1..Len(rule) :
        /\ IsFirstTilde(rule, i) /\ i < Len(rule) /\ rule[i + 1] \in FieldLetters
        /\ IsAfterSpaces(rule, i, q)
        /\ rule[q] = "'" /\ q < Len(rule) /\ rule[q + 1] = "'"

\* the first clause of rule has a field letter and an opening quote that nothing closes
ClosingQuoteMissing(rule) ==
    /\ rule # NULL
    /\ \E i \in 1..Len(rule), q \in 1..Len(rule) :
        /\ IsFirstTilde(rule, i) /\ i < Len(rule) /\ rule[i + 1] \in FieldLetters
        /\ IsAfterSpaces(rule, i, q)
        /\ rule[q] = "'"
        /\ \A j \in (q + 1)..Len(rule) : rule[j] # "'"

BadQuoting(rule) ==
    OpeningQuoteMissing(rule) \/ EmptyPattern(rule) \/ ClosingQuoteMissing(rule)

\* the first clause of rule has a letter that is no field letter and is not ~S
UnknownLetter(rule) ==
    /\ rule # NULL
    /\ \E i \in 1..Len(rule) :
        /\ IsFirstTilde(rule, i) /\ i < Len(rule)
        /\ rule[i + 1] \notin (FieldLetters \cup {"S"})

EvalReturned == ev.res \in {"true", "false"}

----------------------------------------------------------------------------
(* Claims about the evaluator *)

\* C9 (as stated): a first clause with bad quoting after a valid field letter
\* (closing quote missing, opening quote missing, or empty pattern) makes
\* eval_rules return false for every task and selection flag.
C9_BadQuotingFalse ==
    (EvalReturned /\ BadQuoting(ev.rule)) => ev.res = "false"

\* C9, the part the code keeps: a missing opening quote or an empty pattern
\* makes eval_rules return false.
C9_OpeningOrEmptyFalse ==
    (EvalReturned /\ (OpeningQuoteMissing(ev.rule) \/ EmptyPattern(ev.rule)))
        => ev.res = "false"

\* C10: when the first clause has a letter outside {p,d,t,r} that is not S, the
\* evaluator never moves past that clause and the only value it returns is false.
C10_UnknownLetterFalse ==
    UnknownLetter(ev.rule) =>
        /\ ev.res \in {"running", "false"}
        /\ \E i \in 1..Len(ev.rule) : IsFirstTilde(ev.rule, i) /\ ev.pos <= i

\* C10 witness: "~z'a'" has been evaluated for a selected task whose project is "a"
C10_Witness ==
    /\ ev.rule = <<"~", "z", "'", "a", "'">>
    /\ ev.tsk = TaskA /\ ev.selected
    /\ ev.res = "false"

\* C11: the predicate "~S" evaluates to true exactly when the selection flag
\* is true, whatever the task record holds.
C11_SelectedIff ==
    (EvalReturned /\ ev.rule = PRED_SELECTED) => ((ev.res = "true") <=> ev.selected)

\* C11 witness: "~S" has evaluated to true for a selected task
C11_Witness ==
    /\ ev.rule = PRED_SELECTED
    /\ ev.tsk = TaskB /\ ev.selected
    /\ ev.res = "true"

\* the field a letter chooses; the priority is a string of at most one character
FieldOf(letter, tsk) ==
    CASE letter = "p" -> tsk.project
      [] letter = "d" -> tsk.description
      [] letter = "t" -> tsk.tags
      [] letter = "r" -> IF tsk.priority = "" THEN <<>> ELSE <<tsk.priority>>

WellFormed(c) == c.kind \in {"S", "field"}

\* what a well-formed clause asks of the task and the selection flag
ClauseMatches(c, tsk, selected) ==
    IF c.kind = "S" THEN selected ELSE match_string(FieldOf(c.letter, tsk), c.pattern)

\* no field clause among cs has a pattern whose last character is '~'
NoTrailingTilde(cs) ==
    \A i \in 1..Len(cs) :
        cs[i].kind = "field" => cs[i].pattern[Len(cs[i].pattern)] # "~"

\* the clauses 1..k of cs are well-formed
WellFormedUpTo(cs, k) == \A i \in 1..k : WellFormed(cs[i])

\* C12 (as stated): a predicate of several well-formed clauses evaluates to true
\* exactly when every clause matches; and once a well-formed clause has failed
\* after well-formed clauses, the result is false whatever follows it, a
\* malformed clause included.
C12_ClausesConjunction ==
    (EvalReturned /\ Len(ev.clauses) >= 2) =>
        /\ WellFormedUpTo(ev.clauses, Len(ev.clauses)) =>
              ((ev.res = "true") <=>
                  \A i \in 1..Len(ev.clauses) :
                      ClauseMatches(ev.clauses[i], ev.tsk, ev.selected))
        /\ (\E i \in 1..Len(ev.clauses) :
                /\ WellFormedUpTo(ev.clauses, i)
                /\ ~ClauseMatches(ev.clauses[i], ev.tsk, ev.selected))
              => ev.res = "false"

\* C12, the part the code keeps: the same, for predicates none of whose
\* patterns ends in '~'.
C12_ConjunctionWithoutTrailingTilde ==
    (EvalReturned /\ Len(ev.clauses) >= 2 /\ NoTrailingTilde(ev.clauses)) =>
        /\ WellFormedUpTo(ev.clauses, Len(ev.clauses)) =>
              ((ev.res = "true") <=>
                  \A i \in 1..Len(ev.clauses) :
                      ClauseMatches(ev.clauses[i], ev.tsk, ev.selected))
        /\ (\E i \in 1..Len(ev.clauses) :
                /\ WellFormedUpTo(ev.clauses, i)
                /\ ~ClauseMatches(ev.clauses[i], ev.tsk, ev.selected))
              => ev.res = "false"

\* C13 (as stated): a single well-formed clause ~<letter> '<pattern>' evaluates
\* to true exactly when the pattern matches the field the letter chooses
\* (p project, d description, t tags, r priority); no other field counts.
C13_FieldClause ==
    (EvalReturned /\ Len(ev.clauses) = 1 /\ ev.clauses[1].kind = "field") =>
        ((ev.res = "true") <=>
            match_string(FieldOf(ev.clauses[1].letter, ev.tsk), ev.clauses[1].pattern))

\* C13, the part the code keeps: the same, for a pattern that does not end in '~'.
C13_FieldClauseWithoutTrailingTilde ==
    (EvalReturned /\ Len(ev.clauses) = 1 /\ ev.clauses[1].kind = "field"
                  /\ NoTrailingTilde(ev.clauses)) =>
        ((ev.res = "true") <=>
            match_string(FieldOf(ev.clauses[1].letter, ev.tsk), ev.clauses[1].pattern))

\* C22 (as stated): a single well-formed clause ~<letter> '<pattern>' whose
\* field matches the pattern evaluates to true whatever the pattern holds, a
\* '~' at any place of it included.
C22_MatchingClauseTrue ==
    ( /\ EvalReturned
      /\ Len(ev.clauses) = 1 /\ ev.clauses[1].kind = "field"
      /\ match_string(FieldOf(ev.clauses[1].letter, ev.tsk), ev.clauses[1].pattern) )
    => ev.res = "true"

\* C22, the part the code keeps: such a clause evaluates to true when the last
\* character of its pattern is no '~', a '~' elsewhere in the pattern included.
C22_TrueUnlessTrailingTilde ==
    ( /\ EvalReturned
      /\ Len(ev.clauses) = 1 /\ ev.clauses[1].kind = "field"
      /\ NoTrailingTilde(ev.clauses)
      /\ match_string(FieldOf(ev.clauses[1].letter, ev.tsk), ev.clauses[1].pattern) )
    => ev.res = "true"

\* a clause whose pattern starts with '~' has matched and evaluated to true
C22_LeadingTildeReached ==
    /\ ev.clauses = <<[kind |-> "field", letter |-> "d", pattern |-> <<"~", "a">>]>>
    /\ ev.tsk = TaskC
    /\ ev.res = "true"

\* C24: every invocation of eval_rules that recurses does so with the cursor
\* moved forward by at least one character, and the cursor never passes the
\* terminator of the string (position Len+1); so a run on a string of n
\* characters makes at most n+1 invocations.
C24_CursorAdvancesWithinString ==
    [][ ev.res = "running" =>
            /\ ev'.res = "running" => ev'.pos > ev.pos
            /\ ev'.pos <= Len(ev.rule) + 1 ]_vars

\* C24 witness: on "~p'a", a field clause without space and closing quote, the
\* cursor has reached the terminator and the run has returned
C24_Witness ==
    /\ ev.rule = <<"~", "p", "'", "a">>
    /\ ev.tsk = TaskA
    /\ ev.pos = Len(ev.rule) + 1
    /\ ev.res = "true"

\* the predicate is null or holds no '~' (the empty predicate included)
NoTilde(rule) == rule = NULL \/ \A i \in 1..Len(rule) : rule[i] # "~"

\* C14: the null predicate, the empty predicate and every predicate without a
\* '~' evaluate to true for every task and flag; and the characters before the
\* first '~' do not change the result: the predicate evaluates as the text from
\* that '~' on does.
C14_LeadingTextIgnored ==
    EvalReturned =>
        /\ NoTilde(ev.rule) => ev.res = "true"
        /\ \A i \in 1..Len(ev.rule) :
              IsFirstTilde(ev.rule, i) =>
                  ((ev.res = "true") <=> eval_rules(Suffix(ev.rule, i), ev.tsk, ev.selected))

\* C14 witness: "a ~S" has evaluated to false for a task that is not selected
C14_Witness ==
    /\ ev.rule = <<"a", " ", "~", "S">>
    /\ ev.tsk = TaskA /\ ~ev.selected
    /\ ev.res = "false"
----------------------------------------------------------------------------
(* Claims about the pair pool and the rule store *)

\* the slots marked used
UsedSlots == {i \in DOMAIN pairs_used : pairs_used[i]}

\* the used slots with id >= 1 that hold content c
HoldersOf(c) == {p \in UsedSlots \ {0} : pair_table[p] = c}

\* the positions of the rule list whose rule has this object and this predicate
\* (both null, or both non-null with equal text)
PositionsOf(rules, object, rule) ==
    {i \in 1..Len(rules) : rules[i].object = object /\ rules[i].rule = rule}

\* C1: while pair_content has never failed, no two used slots with id >= 1 hold
\* the same (fg, bg) content.
C1_NoDuplicateContent ==
    pc_faults = 0 =>
        \A p \in UsedSlots \ {0}, q \in UsedSlots \ {0} :
            p # q => pair_table[p] # pair_table[q]

\* C1 witness: startup is over without a failure, and the seven default rules
\* share six slots (the two rules asking for red on default got one slot).
C1_Witness ==
    /\ pc = "ready" /\ ip_faults = 0 /\ pc_faults = 0
    /\ Len(color_rules) = Len(DefaultRules)
    /\ UsedSlots = 0..(Len(DefaultRules) - 1)
    /\ \E i \in 1..Len(color_rules), j \in 1..Len(color_rules) :
        i # j /\ color_rules[i].pair = color_rules[j].pair

C4_ReplaceInPlace ==
    [][ last'.op = "add_color_rule" =>
            \A i \in PositionsOf(color_rules, last'.object, last'.rule) :
                /\ Len(color_rules') = Len(color_rules)
                /\ \A j \in 1..Len(color_rules) :
                    /\ color_rules'[j].object = color_rules[j].object
                    /\ color_rules'[j].rule = color_rules[j].rule
                    /\ j # i => color_rules'[j].pair = color_rules[j].pair
                /\ last'.ret = 0 => color_rules'[i].pair = last'.fap ]_vars

\* C4 witness: the last call succeeded for the (object, predicate) of a rule that
\* is not the last of the list, which now refers to the slot the call obtained.
C4_Witness ==
    /\ last.op = "add_color_rule" /\ last.ret = 0
    /\ \E i \in PositionsOf(color_rules, last.object, last.rule) :
        /\ i < Len(color_rules)
        /\ color_rules[i].pair = last.fap
        /\ color_rules[i].pair = COLOR_PAIRS - 1

\* C5: a call of add_color_rule that obtains no slot returns a negative value,
\* and a call that returns a negative value leaves the rule list as it was.
C5_FailureKeepsRules ==
    [][ last'.op = "add_color_rule" =>
            /\ last'.fap < 0 => last'.ret < 0
            /\ last'.ret < 0 => color_rules' = color_rules ]_vars

\* C5 witness: the last call was refused although the list holds a rule with its
\* (object, predicate): the replace path failed.
C5_Witness ==
    /\ last.op = "add_color_rule" /\ last.ret < 0
    /\ PositionsOf(color_rules, last.object, last.rule) # {}
    /\ ip_faults = 0

\* C15: a call of add_color_rule whose (object, predicate) equals that of no
\* rule of the list, and which obtains a pair, appends exactly one rule at the
\* end, holding that pair; the rules already there keep their content and order.
C15_AppendAtEnd ==
    [][ ( /\ last'.op = "add_color_rule"
          /\ PositionsOf(color_rules, last'.object, last'.rule) = {}
          /\ last'.fap >= 0 )
        => /\ last'.ret = 0
           /\ color_rules' = Append(color_rules, [pair |-> last'.fap, rule |-> last'.rule,
                                                  object |-> last'.object]) ]_vars

\* C15 witness: the last call succeeded and its rule, with a predicate, stands
\* alone under its (object, predicate) at the end of a list of the seven default
\* rules and more.
C15_Witness ==
    /\ last.op = "add_color_rule" /\ last.ret = 0
    /\ last.rule = PRED_PROJECT_A
    /\ Len(color_rules) > Len(DefaultRules)
    /\ PositionsOf(color_rules, last.object, last.rule) = {Len(color_rules)}
    /\ color_rules[Len(color_rules)].pair = last.fap
----------------------------------------------------------------------------
(* Claims about the resolver *)

\* the positions of the rules of class object
RulesOfClass(object) == {i \in 1..Len(color_rules) : color_rules[i].object = object}

\* the positions of the task rules whose predicate holds for tsk and selected
MatchingTaskRules(tsk, selected) ==
    {i \in RulesOfClass(OBJECT_TASK) : eval_rules(color_rules[i].rule, tsk, selected)}

\* the rules the last get_colors call could take its pair from
LastCallMatches ==
    IF last.object = OBJECT_TASK
    THEN MatchingTaskRules(last.tsk, last.selected)
    ELSE RulesOfClass(last.object)

\* C6: for object class Task, get_colors returns the pair of the last rule in
\* list order whose class is Task and whose predicate holds for the task and
\* the selection flag.
C6_TaskLastMatchWins ==
    (last.op = "get_colors" /\ last.object = OBJECT_TASK) =>
        \A i \in MatchingTaskRules(last.tsk, last.selected) :
            (\A j \in MatchingTaskRules(last.tsk, last.selected) : j <= i)
                => last.ret = COLOR_PAIR(color_rules[i].pair)

\* C6 witness: the list holds Task/null -> A and later Task/"~S" -> B with
\* A # B, and a selected task has resolved to B.
C6_Witness ==
    /\ last.op = "get_colors" /\ last.object = OBJECT_TASK
    /\ \E i \in RulesOfClass(OBJECT_TASK), j \in RulesOfClass(OBJECT_TASK) :
        /\ i < j
        /\ color_rules[i].rule = NULL /\ color_rules[j].rule = PRED_SELECTED
        /\ color_rules[i].pair # color_rules[j].pair
        /\ last.selected
        /\ last.ret = COLOR_PAIR(color_rules[j].pair)

\* C7: for object class Header or Error, get_colors returns the pair of the
\* first rule of that class in list order, whatever its predicate text, the
\* task and the selection flag.
C7_HeaderErrorFirstRule ==
    (last.op = "get_colors" /\ last.object \in {OBJECT_HEADER, OBJECT_ERROR}) =>
        \A i \in RulesOfClass(last.object) :
            (\A j \in RulesOfClass(last.object) : i <= j)
                => last.ret = COLOR_PAIR(color_rules[i].pair)

\* C7 witness: a header has resolved to the pair of the first header rule while
\* a later header rule, whose predicate holds for the task, has another pair.
C7_Witness ==
    /\ last.op = "get_colors" /\ last.object = OBJECT_HEADER
    /\ \E i \in RulesOfClass(OBJECT_HEADER), j \in RulesOfClass(OBJECT_HEADER) :
        /\ i < j
        /\ color_rules[i].pair # color_rules[j].pair
        /\ eval_rules(color_rules[j].rule, last.tsk, last.selected)
        /\ last.ret = COLOR_PAIR(color_rules[i].pair)

\* C8: get_colors returns the default pair 0 whenever no rule matches: the list
\* is empty, no rule has the class asked for, or no task rule's predicate holds.
C8_DefaultWhenNoMatch ==
    (last.op = "get_colors" /\ LastCallMatches = {}) => last.ret = COLOR_PAIR(0)

\* C8 witness: the list holds task rules, none of whose predicates holds for the
\* task resolved last, and the call returned 0.
C8_Witness ==
    /\ last.op = "get_colors" /\ last.object = OBJECT_TASK
    /\ RulesOfClass(OBJECT_TASK) # {}
    /\ MatchingTaskRules(last.tsk, last.selected) = {}
    /\ last.ret = 0

\* C8, the monochrome case: init_colors has returned 1, 2 or 3, the list is
\* empty and a resolution has returned 0.
C8_MonochromeReached ==
    /\ init_ret \in {1, 2, 3}
    /\ color_rules = <<>>
    /\ last.op = "get_colors" /\ last.ret = 0

\* C16: get_colors changes nothing of the engine: the rule list, the usage
\* table and the pair contents are after the call what they were before it.
C16_GetColorsPure ==
    [][ last'.op = "get_colors" =>
            /\ color_rules' = color_rules
            /\ pairs_used' = pairs_used
            /\ pairs_used_ptr' = pairs_used_ptr
            /\ pair_table' = pair_table
            /\ pc' = pc ]_vars

\* C16 witness: get_colors has resolved a selected task against a list of the
\* default rules and a user rule, and returned the pair of a rule
C16_Witness ==
    /\ last.op = "get_colors" /\ last.object = OBJECT_TASK /\ last.selected
    /\ Len(color_rules) > Len(DefaultRules)
    /\ last.ret # COLOR_PAIR(0)

----------------------------------------------------------------------------
(* Claims about startup and teardown *)

\* C17 (as stated): free_colors, whatever the length of the list, returns
\* having released the usage table, every rule node and every non-null
\* predicate string exactly once, and reads no node after releasing it.
C17_FreeColorsReleasesAll ==
    last.op = "free_colors" =>
        /\ pc = "freed"
        /\ pairs_used_ptr = "freed" => heap.table_frees = 1
        /\ \A i \in 1..Len(color_rules) :
            /\ heap.node_frees[i] = 1
            /\ heap.string_frees[i] = IF color_rules[i].rule = NULL THEN 0 ELSE 1
        /\ heap.stale_reads = 0

\* C17, the part the code keeps: when free_colors returns, the usage table and
\* every non-null predicate string have been released exactly once, and no
\* node more than once.
C17_TableAndStringsReleasedOnce ==
    (last.op = "free_colors" /\ pc = "freed") =>
        /\ pairs_used_ptr = "freed" => heap.table_frees = 1
        /\ \A i \in 1..Len(color_rules) :
            /\ heap.node_frees[i] <= 1
            /\ heap.string_frees[i] = IF color_rules[i].rule = NULL THEN 0 ELSE 1

\* the list starts with the default rules' (object, predicate) in their order
DefaultKeysInOrder ==
    /\ Len(color_rules) >= Len(DefaultRules)
    /\ \A i \in 1..Len(DefaultRules) :
        /\ color_rules[i].object = DefaultRules[i].object
        /\ color_rules[i].rule = DefaultRules[i].rule

\* a selected task was resolved against the default rules alone and got the
\* pair of the Task/"~S" rule
SelectedGetsSelectedRule ==
    (last.op = "get_colors" /\ last.object = OBJECT_TASK /\ last.selected
        /\ Len(color_rules) = Len(DefaultRules))
    => \E i \in PositionsOf(color_rules, OBJECT_TASK, PRED_SELECTED) :
            last.ret = COLOR_PAIR(color_rules[i].pair)

\* slots the default rules need: slot 0 and one for each distinct content
DefaultSlots == 1 + Cardinality({<<DefaultRules[i].fg, DefaultRules[i].bg>> :
                                    i \in 1..Len(DefaultRules)})

\* C18 (as stated): once init_colors has returned 0 on a terminal with enough
\* pair slots, the list holds the default rules in the order Header/null,
\* Task/null, the Task rules with predicates, Task/"~S", Error/null, and a
\* selected task resolves to the pair of the Task/"~S" rule.
C18_DefaultOrder ==
    (init_ret = 0 /\ COLOR_PAIRS >= DefaultSlots) =>
        /\ DefaultKeysInOrder
        /\ SelectedGetsSelectedRule

\* C18, the part the code keeps: the same, as long as no init_pair and no
\* pair_content call has failed.
C18_DefaultOrderIfNoFailure ==
    (init_ret = 0 /\ COLOR_PAIRS >= DefaultSlots /\ ip_faults = 0 /\ pc_faults = 0) =>
        /\ DefaultKeysInOrder
        /\ SelectedGetsSelectedRule

\* C19 (as stated): when the installation of a default rule has failed for
\* want of a pair slot, init_colors does not return 0.  A default rule whose
\* installation failed is missing from the list: no later call adds a rule with
\* its (object, predicate).
C19_ExhaustionReported ==
    init_ret = 0 =>
        \A i \in 1..Len(DefaultRules) :
            PositionsOf(color_rules, DefaultRules[i].object, DefaultRules[i].rule) # {}

\* C20 (as stated): the usage table is accessed only while it is allocated; a
\* call of add_color_rule made while it is not (init_colors returned 1, 2 or 3,
\* or free_colors has run) returns a failure without touching it.
C20_TableUsedOnlyWhileAllocated ==
    /\ ~heap.table_misuse
    /\ last.op \in {"add_color_rule_crash", "add_color_rule_freed"} =>
            (pc \notin {"crashed", "undefined"} /\ last.ret < 0)

----------------------------------------------------------------------------
(* Claims about the usage table over the life of the engine *)

\* C21 (as stated): find_add_pair and add_color_pair index the usage table only
\* at 0..COLOR_PAIRS-1, also when every slot is used and a content held by no
\* slot is asked for.
C21_IndexWithinTable ==
    last.op = "add_color_rule" => last.top \in 0..(COLOR_PAIRS - 1)

\* C21, the part the code keeps: the table is indexed past its end only at
\* COLOR_PAIRS, only by a call that finds every slot used, and that call returns
\* -1 and leaves the table as it was, whatever the read yields.
C21_OnlyOnePastWhenFull ==
    [][ last'.op = "add_color_rule" =>
            /\ last'.top \in 0..COLOR_PAIRS
            /\ last'.top = COLOR_PAIRS =>
                  /\ \A i \in DOMAIN pairs_used : pairs_used[i]
                  /\ last'.fap = -1
                  /\ pairs_used' = pairs_used ]_vars

====
